---- MODULE Spec2Model ----
(***************************************************************************)
(* Session / token lifecycle of the Zylo SDK and of the application's own  *)
(* auth layer.                                                             *)
(*                                                                         *)
(* Two implementations of the same design live in the repository:          *)
(*   impl = "sdk" : authService + ZyloProvider + AuthenticatedClient       *)
(*                  (packages/sdk-react, localStorage session store)       *)
(*   impl = "app" : supabase client + AuthProvider + ApiClient             *)
(*                  (src/lib/auth, session held by the supabase client)    *)
(*                                                                         *)
(* Time is counted in minutes; every duration of the source is a whole     *)
(* number of minutes (5 * 60 * 1000 ms = 5, 3600000 ms = 60).              *)
(* A step of the model is the code that runs between two suspension        *)
(* points (network calls); everything synchronous in between is one step.  *)
(***************************************************************************)
EXTENDS Integers, Sequences, FiniteSets, TLC

\* ------------------------------------------------------------------ bounds
MaxTime == 2
MaxTokens == 2
MaxAuthOps == 2
MaxRequests == 2

\* ------------------------------------------------------- program constants
\* Buffer before expiry (5 minutes)
EXPIRY_BUFFER == 5
\* fallback lifetime of a cached token without expiry (3600000 ms)
DEFAULT_TOKEN_LIFE == 60

\* --------------------------------------------------------- option values
None == <<>>
Some(x) == <<x>>
IsSome(o) == o # <<>>
Val(o) == o[1]

\* ------------------------------------------------------------ input sets
\* tenant identifiers that the backend may put into a token
Tenants == {"projA", "projB"}
\* configured expected tenant: unset/empty, the dev sentinel, or a tenant
ExpectedTenants == {"", "dev", "projA"}
Users == {"u1"}
\* lifetimes (minutes) of the sessions the backend mints
Lifetimes == {7}

\* =========================================================================
\* Tokens.  A token string is modelled by its list of '.'-separated
\* segments; the middle segment records whether atob() and JSON.parse()
\* accept it and, when they do, the JSON value it holds.
\* =========================================================================
JNull == [t |-> "null"]
JNum == [t |-> "num"]
JAbsent == [t |-> "absent"]
JStr(s) == [t |-> "str", s |-> s]
JObj(am, exp) == [t |-> "obj", app_metadata |-> am, exp |-> exp]
JMeta(pid) == [t |-> "obj", project_id |-> pid]

BadBase64 == [tag |-> "badb64"]
BadJson == [tag |-> "badjson"]
Payload(v) == [tag |-> "json", val |-> v]

\* a well-formed token number n carrying claim value pv, expiring at exp
Jwt(n, pv, exp) == <<"hdr", Payload(JObj(JMeta(pv), exp)), n>>
\* a well-formed token without app_metadata
JwtNoMeta(n, exp) == <<"hdr", Payload(JObj(JAbsent, exp)), n>>

\* the claim values a backend-minted token may carry
MintClaims == {JStr(p) : p \in Tenants} \cup {JAbsent}

\* decodeJwtPayload without the test on the number of segments
decodeJwtPayloadAnyLength(token) ==
  IF Len(token) < 2 THEN None
  ELSE IF token[2].tag = "badb64" THEN None
  ELSE IF token[2].tag = "badjson" THEN None
  ELSE Some(token[2].val)

\* decodeJwtPayload: null ("None") or the parsed payload
decodeJwtPayload(token) ==
  IF Len(token) # 3 THEN None
  ELSE IF token[2].tag = "badb64" THEN None      \* atob throws, caught
  ELSE IF token[2].tag = "badjson" THEN None     \* JSON.parse throws, caught
  ELSE Some(token[2].val)

\* JavaScript truthiness of a decoded payload (JSON.parse may yield null)
PayloadTruthy(p) == IsSome(p) /\ Val(p).t # "null"

\* payload.app_metadata?.project_id, as a JSON value or JAbsent
ProjectIdField(p) ==
  IF Val(p).t # "obj" THEN JAbsent
  ELSE IF Val(p).app_metadata.t # "obj" THEN JAbsent
  ELSE Val(p).app_metadata.project_id

\* getProjectIdFromToken of the SDK (auth service): a truthy string or null
getProjectIdFromTokenSdk(accessToken) ==
  LET payload == decodeJwtPayload(accessToken) IN
  IF ~PayloadTruthy(payload) THEN None
  ELSE LET pid == ProjectIdField(payload) IN
       IF pid.t = "str" /\ pid.s # "" THEN Some(pid.s) ELSE None

\* getProjectIdFromToken of the application (lib/supabase): any string or null
getProjectIdFromTokenApp(accessToken) ==
  LET payload == decodeJwtPayload(accessToken) IN
  IF ~PayloadTruthy(payload) THEN None
  ELSE LET pid == ProjectIdField(payload) IN
       IF pid.t = "str" THEN Some(pid.s) ELSE None

\* the tenant check left out: every session is accepted
validateSessionProjectLax(expected, accessToken) == TRUE

\* validateSessionProject (ZyloProvider), on the session's access token
validateSessionProject(expected, accessToken) ==
  IF expected = "" \/ expected = "dev" THEN TRUE
  ELSE LET tokenProjectId == getProjectIdFromTokenSdk(accessToken) IN
       IF ~IsSome(tokenProjectId) THEN TRUE
       ELSE IF Val(tokenProjectId) # expected THEN FALSE
       ELSE TRUE

\* validateProjectId looking at the token before the configuration
validateProjectIdTokenFirst(expected, accessToken) ==
  LET tokenProjectId == getProjectIdFromTokenApp(accessToken) IN
  IF ~IsSome(tokenProjectId) \/ Val(tokenProjectId) = "" THEN TRUE
  ELSE Val(tokenProjectId) = expected

\* validateProjectId (lib/supabase)
validateProjectId(expected, accessToken) ==
  IF expected = "" \/ expected = "dev" THEN TRUE
  ELSE LET tokenProjectId == getProjectIdFromTokenApp(accessToken) IN
       IF ~IsSome(tokenProjectId) \/ Val(tokenProjectId) = "" THEN TRUE
       ELSE Val(tokenProjectId) = expected

\* =========================================================================
\* Session store of the SDK: three localStorage entries.
\* =========================================================================
Absent == [t |-> "absent"]
Str(v) == [t |-> "str", v |-> v]
\* JSON.stringify(session): the text of an object, a list of members
\* "name": value in property order
JsonText(s) ==
  [t |-> "json",
   v |-> <<<<"user", s.user>>, <<"accessToken", s.accessToken>>,
           <<"refreshToken", s.refreshToken>>, <<"expiresAt", s.expiresAt>>>>]
\* the value JSON.parse gives the property key of an object text: that of its
\* last member of that name, none when there is no such member
Member(members, key) ==
  LET ks == {k \in 1..Len(members) : members[k][1] = key} IN
  IF ks = {} THEN JAbsent
  ELSE members[CHOOSE k \in ks : \A j \in ks : j <= k][2]

EmptyStorage == [SESSION |-> Absent, ACCESS_TOKEN |-> Absent, REFRESH_TOKEN |-> Absent]

\* ZyloAuthSession
ZyloAuthSession(u, at, rt, exp) ==
  [user |-> u, accessToken |-> at, refreshToken |-> rt, expiresAt |-> exp]

RefreshTok(n) == <<"rt", n>>

clearStoredSession(ls) == EmptyStorage

storeSession(ls, s) ==
  [SESSION |-> JsonText(s), ACCESS_TOKEN |-> Str(s.accessToken),
   REFRESH_TOKEN |-> Str(s.refreshToken)]

\* JSON.parse(stored) as ZyloAuthSession
JsonParse(text) ==
  ZyloAuthSession(Member(text.v, "user"), Member(text.v, "accessToken"),
                  Member(text.v, "refreshToken"), Member(text.v, "expiresAt"))

\* getStoredSession taking a session for expired from EXPIRY_BUFFER before
\* its expiry on
getStoredSessionBuffered(ls, t) ==
  IF ls.SESSION.t = "absent" THEN <<None, ls>>
  ELSE IF ls.SESSION.t # "json" THEN <<None, ls>>
  ELSE LET s == JsonParse(ls.SESSION) IN
       IF s.expiresAt < t + EXPIRY_BUFFER THEN <<None, clearStoredSession(ls)>>
       ELSE <<Some(s), ls>>

\* getStoredSession at time t: <<session or None, storage afterwards>>
getStoredSession(ls, t) ==
  IF ls.SESSION.t = "absent" THEN <<None, ls>>
  ELSE IF ls.SESSION.t # "json" THEN <<None, ls>>          \* JSON.parse throws
  ELSE LET s == JsonParse(ls.SESSION) IN
       IF s.expiresAt < t THEN <<None, clearStoredSession(ls)>>
       ELSE <<Some(s), ls>>

\* the supabase Session built from a pair of tokens; expires_at is the
\* token's exp claim
SbSession(u, at, rt) ==
  [user |-> u, access_token |-> at, refresh_token |-> rt,
   expires_at |-> Val(decodeJwtPayload(at)).exp]

\* the supabase Session for a backend session
SbOf(s) == SbSession(s.user, s.accessToken, s.refreshToken)

\* =========================================================================
\* State
\* =========================================================================
VARIABLES
  impl,          \* which implementation runs: "sdk" or "app"
  projectId,     \* config.projectId / NEXT_PUBLIC_PROJECT_ID
  now,           \* Date.now(), minutes
  mounted,       \* the provider's mount effect has started
  localStorage,  \* SDK: the three persisted entries
  sbSession,     \* app: the session held (and persisted) by the supabase client
  sbClearing,    \* app: a clearSupabaseSession() nobody awaits is under way
  user,          \* provider state: user
  session,       \* provider state: session
  isLoading,     \* provider state: isLoading / loading
  error,         \* AuthProvider state: error (app only)
  cachedToken,   \* request client: cachedToken
  tokenExpiry,   \* request client: tokenExpiry
  nextTok,       \* next token number the backend mints
  ops,           \* auth operations started so far
  reqs,          \* request() calls started so far
  last,          \* the auth operation that completed most recently (n: how many did)
  task,          \* auth operations in flight, per slot
  req,           \* the request() call in flight or completed last
  nav,           \* route guard: pathname, publicRoutes, what was rendered, redirect issued
  storeIO,       \* session store: the session last stored and the one last loaded
  tok            \* token decoder and validator: the token in hand and what they made of it

vars == <<impl, projectId, now, mounted, localStorage, sbSession, sbClearing, user, session,
          isLoading, error, cachedToken, tokenExpiry, nextTok, ops, reqs, last,
          task, req, nav, storeIO, tok>>

config == <<impl, projectId>>
provider == <<user, session, isLoading, error>>
cache == <<cachedToken, tokenExpiry>>

\* slots for overlapping auth operations
Slots == {"t1", "t2"}

IdleTask == [op |-> "idle", pc |-> "idle", arg |-> None]
NoLast == [op |-> "none", out |-> "none", res |-> "none", n |-> 0, got |-> None]
IdleReq == [pc |-> "idle", skipAuth |-> FALSE, hadCache |-> FALSE, phase |-> 0, calls |-> 0,
            sent |-> <<>>, outs |-> <<>>, tokres |-> <<>>, refreshes |-> 0,
            returned |-> FALSE, threw |-> FALSE, success |-> FALSE, error |-> "none",
            timer |-> FALSE]

\* no navigation yet: nothing rendered at the root path, no public routes
IdleNav == [pathname |-> <<"/">>, publicRoutes |-> <<>>, public |-> FALSE, view |-> "none",
            redirect |-> None]
\* no token has been handed to the decoder or the validator
IdleTok == [token |-> <<>>, pc |-> "idle", payload |-> None, tenant |-> None, valid |-> None]
\* the session store has not been called
IdleStoreIO == [stored |-> None, loaded |-> None, pc |-> "idle", ans |-> None]

Free(i) == task[i].pc = "idle"
ReqFree == req.pc \in {"idle", "done"}

\* sessions the backend can mint at time t with token number n
MintSessions(t, n) ==
  {ZyloAuthSession(u, Jwt(n, JStr(c), t + l), RefreshTok(n), t + l) :
     u \in Users, c \in Tenants, l \in Lifetimes}

\* ways a call to an auth endpoint fails: fetch or response.json() rejects,
\* or the response is an error / carries no session
AuthFailures == {"neterr", "error"}
\* ways the backend sign-out call comes back
SignOutOutcomes == {"ok", "neterr", "error"}

\* sessions left behind by an earlier page load: one that is still good for
\* more than the buffer, one of another tenant, one about to expire
InitialSessions ==
  {ZyloAuthSession("u1", Jwt(0, JStr(x[1]), x[2]), RefreshTok(0), x[2]) :
     x \in {<<"projA", 7>>, <<"projA", 6>>, <<"projB", 7>>, <<"projA", 1>>}}

\* persisted sessions a page load may find in localStorage
InitialStorages ==
  {EmptyStorage} \cup
  {storeSession(EmptyStorage, s) : s \in InitialSessions}

Init ==
  /\ impl \in {"sdk", "app"}
  /\ projectId = "projA"
  /\ now = 1
  /\ mounted = FALSE
  /\ localStorage \in (IF impl = "sdk" THEN InitialStorages ELSE {EmptyStorage})
  /\ sbSession \in (IF impl = "app" THEN {None} \cup {Some(SbOf(s)) : s \in InitialSessions}
                                    ELSE {None})
  /\ sbClearing = FALSE
  /\ user = None
  /\ session = None
  /\ isLoading = TRUE
  /\ error = None
  /\ cachedToken = None
  /\ tokenExpiry = None
  /\ nextTok = 1
  /\ ops = 0
  /\ reqs = 0
  /\ last = NoLast
  /\ task = [i \in Slots |-> IdleTask]
  /\ req = IdleReq
  /\ nav = IdleNav
  /\ storeIO = IdleStoreIO
  /\ tok = IdleTok

\* the passage of time
Tick ==
  /\ now < MaxTime
  /\ now' = now + 1
  /\ UNCHANGED <<config, nav, storeIO, tok, mounted, localStorage, sbSession, sbClearing, provider, cache,
                 nextTok, ops, reqs, last, task, req>>

\* slot i completes operation op, which met outcome out, with result res,
\* having received the access token got (if any) from the backend
FinishGot(i, op, out, res, got) ==
  /\ task' = [task EXCEPT ![i] = IdleTask]
  /\ last' = [op |-> op, out |-> out, res |-> res, n |-> last.n + 1, got |-> got]
\* slot i completes operation op, which met outcome out, with result res
Finish(i, op, out, res) == FinishGot(i, op, out, res, None)
\* the access token of an optional ZyloAuthSession
TokenOf(o) == IF IsSome(o) THEN Some(Val(o).accessToken) ELSE None
\* slot i suspends in operation op at pc
Suspend(i, op, pc) ==
  /\ task' = [task EXCEPT ![i] = [op |-> op, pc |-> pc, arg |-> None]]
  /\ UNCHANGED last
\* slot i suspends in operation op at pc, holding arg
SuspendWith(i, op, pc, arg) ==
  /\ task' = [task EXCEPT ![i] = [op |-> op, pc |-> pc, arg |-> arg]]
  /\ UNCHANGED last

\* =========================================================================
\* SDK: authService (part_009) under ZyloProvider (part_007)
\* =========================================================================

\* ZyloProvider.signIn / signUp up to the fetch inside apiRequest
SdkSignInStart(i, op) ==
  /\ impl = "sdk" /\ mounted /\ Free(i) /\ ops < MaxAuthOps
  /\ ops' = ops + 1
  /\ isLoading' = TRUE
  /\ localStorage' = getStoredSession(localStorage, now)[2]
  /\ Suspend(i, op, "await_auth")
  /\ UNCHANGED <<config, nav, storeIO, tok, now, mounted, sbSession, sbClearing, user, session, error, cache,
                 nextTok, reqs, req>>

\* the sign-in / sign-up call fails: apiRequest or authService throws and
\* the provider's finally block runs
SdkSignInFails(i, why) ==
  /\ impl = "sdk" /\ task[i].pc = "await_auth"
  /\ isLoading' = FALSE
  /\ Finish(i, task[i].op, why, "threw_credentials")
  /\ UNCHANGED <<config, nav, storeIO, tok, now, mounted, localStorage, sbSession, sbClearing, user, session, error,
                 cache, nextTok, ops, reqs, req>>

\* the sign-in / sign-up call returns a session: authService stores it and
\* the provider validates it
SdkSignInSession(i, s) ==
  /\ impl = "sdk" /\ task[i].pc = "await_auth"
  /\ nextTok <= MaxTokens /\ s \in MintSessions(now, nextTok)
  /\ nextTok' = nextTok + 1
  /\ LET ls1 == storeSession(localStorage, s)
         g == getStoredSession(ls1, now)
     IN IF validateSessionProject(projectId, s.accessToken)
        THEN /\ localStorage' = ls1
             /\ session' = Some(s) /\ user' = Some(s.user)
             /\ isLoading' = FALSE
             /\ FinishGot(i, task[i].op, "session", "ok", Some(s.accessToken))
        ELSE \* await authService.signOut()
             IF IsSome(g[1])
             THEN /\ localStorage' = g[2]
                  /\ SuspendWith(i, task[i].op, "await_cleanup", Some(s))
                  /\ UNCHANGED <<session, user, isLoading>>
             ELSE /\ localStorage' = clearStoredSession(g[2])
                  /\ isLoading' = FALSE
                  /\ FinishGot(i, task[i].op, "session", "threw_tenant", Some(s.accessToken))
                  /\ UNCHANGED <<session, user>>
  /\ UNCHANGED <<config, nav, storeIO, tok, now, mounted, sbSession, sbClearing, error, cache, ops, reqs, req>>

\* the sign-out call made for a rejected session comes back (in any way):
\* clearStoredSession, then the provider throws / leaves Loading
SdkCleanupResponse(i, out) ==
  /\ impl = "sdk" /\ task[i].pc = "await_cleanup"
  /\ localStorage' = clearStoredSession(localStorage)
  /\ isLoading' = FALSE
  /\ FinishGot(i, task[i].op, out, IF task[i].op = "init" THEN "rejected" ELSE "threw_tenant",
               TokenOf(task[i].arg))
  /\ UNCHANGED <<config, nav, storeIO, tok, now, mounted, sbSession, sbClearing, user, session, error, cache,
                 nextTok, ops, reqs, req>>

\* ZyloProvider.signOut up to the fetch, or to the end when nothing is stored
SdkSignOutStart(i) ==
  /\ impl = "sdk" /\ mounted /\ Free(i) /\ ops < MaxAuthOps
  /\ ops' = ops + 1
  /\ LET g == getStoredSession(localStorage, now) IN
     IF IsSome(g[1])
     THEN /\ localStorage' = g[2]
          /\ isLoading' = TRUE
          /\ Suspend(i, "signOut", "await_signout")
          /\ UNCHANGED <<session, user>>
     ELSE /\ localStorage' = clearStoredSession(g[2])
          /\ session' = None /\ user' = None
          /\ isLoading' = FALSE
          /\ Finish(i, "signOut", "none", "ok")
  /\ UNCHANGED <<config, nav, storeIO, tok, now, mounted, sbSession, sbClearing, error, cache, nextTok, reqs, req>>

\* the backend sign-out call comes back and a failure is not caught: local
\* state is cleared only after a successful call
SdkSignOutResponseNoCatch(i, out) ==
  /\ impl = "sdk" /\ task[i].pc = "await_signout"
  /\ IF out = "ok"
     THEN /\ localStorage' = clearStoredSession(localStorage)
          /\ session' = None /\ user' = None
     ELSE UNCHANGED <<localStorage, session, user>>
  /\ isLoading' = FALSE
  /\ Finish(i, "signOut", out, IF out = "ok" THEN "ok" ELSE "threw")
  /\ UNCHANGED <<config, nav, storeIO, tok, now, mounted, sbSession, sbClearing, error, cache, nextTok, ops, reqs, req>>

\* the backend sign-out call comes back, in any way: the catch swallows a
\* failure, clearStoredSession runs, the provider clears its state
SdkSignOutResponse(i, out) ==
  /\ impl = "sdk" /\ task[i].pc = "await_signout"
  /\ localStorage' = clearStoredSession(localStorage)
  /\ session' = None /\ user' = None
  /\ isLoading' = FALSE
  /\ Finish(i, "signOut", out, "ok")
  /\ UNCHANGED <<config, nav, storeIO, tok, now, mounted, sbSession, sbClearing, error, cache, nextTok, ops, reqs, req>>

\* authService.refreshSession up to its fetch: <<"null" | "await", storage>>
RefreshBegin(ls, t) ==
  LET g == getStoredSession(ls, t) IN
  IF ~IsSome(g[1]) THEN <<"null", g[2]>> ELSE <<"await", g[2]>>

\* authService.getSession up to its first suspension:
\* <<"null" | "stored" | "await", session or None, storage>>
GetSessionBegin(ls, t) ==
  LET g == getStoredSession(ls, t) IN
  IF ~IsSome(g[1]) THEN <<"null", None, g[2]>>
  ELSE IF Val(g[1]).expiresAt < t + EXPIRY_BUFFER
       THEN <<RefreshBegin(g[2], t)[1], None, RefreshBegin(g[2], t)[2]>>
       ELSE <<"stored", g[1], g[2]>>

\* ZyloProvider.refreshSession up to the fetch
SdkRefreshStart(i) ==
  /\ impl = "sdk" /\ mounted /\ Free(i) /\ ops < MaxAuthOps
  /\ ops' = ops + 1
  /\ LET b == RefreshBegin(localStorage, now) IN
     /\ localStorage' = b[2]
     /\ IF b[1] = "await"
        THEN /\ SuspendWith(i, "refresh", "await_refresh",
                            getStoredSession(localStorage, now)[1])
             /\ UNCHANGED <<session, user>>
        ELSE /\ session' = None /\ user' = None
             /\ Finish(i, "refresh", "none", "null")
  /\ UNCHANGED <<config, nav, storeIO, tok, now, mounted, sbSession, sbClearing, isLoading, error, cache, nextTok,
                 reqs, req>>

\* the refresh call fails (rejects, throws in apiRequest, or carries no
\* session): clearStoredSession, null; the provider becomes anonymous
SdkRefreshFails(i, why) ==
  /\ impl = "sdk" /\ task[i].pc = "await_refresh"
  /\ localStorage' = clearStoredSession(localStorage)
  /\ session' = None /\ user' = None
  /\ FinishGot(i, "refresh", why, "null", TokenOf(task[i].arg))
  /\ UNCHANGED <<config, nav, storeIO, tok, now, mounted, sbSession, sbClearing, isLoading, error, cache, nextTok,
                 ops, reqs, req>>

\* the refresh call returns a session: storeSession, the provider takes it
SdkRefreshSession(i, s) ==
  /\ impl = "sdk" /\ task[i].pc = "await_refresh"
  /\ nextTok <= MaxTokens /\ s \in MintSessions(now, nextTok)
  /\ nextTok' = nextTok + 1
  /\ localStorage' = storeSession(localStorage, s)
  /\ session' = Some(s) /\ user' = Some(s.user)
  /\ Finish(i, "refresh", "session", "ok")
  /\ UNCHANGED <<config, nav, storeIO, tok, now, mounted, sbSession, sbClearing, isLoading, error, cache, ops, reqs, req>>

\* initAuth after getSession delivered cur (a session or None), with the
\* storage as getSession left it
SdkInitAccept(i, cur, ls, out, loaded) ==
  IF ~IsSome(cur)
  THEN /\ localStorage' = ls
       /\ isLoading' = FALSE
       /\ FinishGot(i, "init", out, "anonymous", TokenOf(loaded))
       /\ UNCHANGED <<session, user>>
  ELSE IF validateSessionProject(projectId, Val(cur).accessToken)
  THEN /\ localStorage' = ls
       /\ session' = cur /\ user' = Some(Val(cur).user)
       /\ isLoading' = FALSE
       /\ FinishGot(i, "init", out, "authenticated", TokenOf(loaded))
  ELSE \* await authService.signOut()
       LET g == getStoredSession(ls, now) IN
       IF IsSome(g[1])
       THEN /\ localStorage' = g[2]
            /\ SuspendWith(i, "init", "await_cleanup", loaded)
            /\ UNCHANGED <<session, user, isLoading>>
       ELSE /\ localStorage' = clearStoredSession(g[2])
            /\ isLoading' = FALSE
            /\ FinishGot(i, "init", out, "rejected", TokenOf(loaded))
            /\ UNCHANGED <<session, user>>

\* the mount effect of ZyloProvider: initAuth up to its first suspension
SdkInitStart(i) ==
  /\ impl = "sdk" /\ ~mounted /\ i = "t1"
  /\ mounted' = TRUE
  /\ LET b == GetSessionBegin(localStorage, now)
         loaded == getStoredSession(localStorage, now)[1] IN
     IF b[1] = "await"
     THEN /\ localStorage' = b[3]
          /\ SuspendWith(i, "init", "await_init_refresh", loaded)
          /\ UNCHANGED <<session, user, isLoading>>
     ELSE SdkInitAccept(i, b[2], b[3], "none", loaded)
  /\ UNCHANGED <<config, nav, storeIO, tok, now, sbSession, sbClearing, error, cache, nextTok, ops, reqs, req>>

\* the refresh started by initAuth's getSession fails
SdkInitRefreshFails(i, why) ==
  /\ impl = "sdk" /\ task[i].pc = "await_init_refresh"
  /\ SdkInitAccept(i, None, clearStoredSession(localStorage), why, task[i].arg)
  /\ UNCHANGED <<config, nav, storeIO, tok, now, mounted, sbSession, sbClearing, error, cache, nextTok, ops, reqs, req>>

\* the refresh started by initAuth's getSession returns a session
SdkInitRefreshSession(i, s) ==
  /\ impl = "sdk" /\ task[i].pc = "await_init_refresh"
  /\ nextTok <= MaxTokens /\ s \in MintSessions(now, nextTok)
  /\ nextTok' = nextTok + 1
  /\ SdkInitAccept(i, Some(s), storeSession(localStorage, s), "session", task[i].arg)
  /\ UNCHANGED <<config, nav, storeIO, tok, now, mounted, sbSession, sbClearing, error, cache, ops, reqs, req>>

\* =========================================================================
\* Request client.  What a call to the target endpoint can come back with:
\* the timer aborts it, fetch rejects, the body is not JSON, or a response
\* with a status and a JSON body whose own success flag is true, false or
\* missing.
\* =========================================================================
Statuses == {200, 401, 500}
Flags == {"true", "false", "absent"}
Outcome(k, st, fl) == [k |-> k, status |-> st, flag |-> fl]
Responses == {Outcome("resp", st, fl) : st \in Statuses, fl \in Flags}
Timeout == Outcome("timeout", 0, "none")
NetErr == Outcome("neterr", 0, "none")
BadBody == Outcome("badjson", 0, "none")
FirstOutcomes == Responses \cup {Timeout, NetErr, BadBody}
RetryOutcomes == Responses \cup {NetErr, BadBody}
IsOk(o) == o.status = 200

\* request() returns {success, error}
Return(r, ok, err) ==
  [r EXCEPT !.pc = "done", !.returned = TRUE, !.success = ok, !.error = err]
\* request() lets an exception escape
Throw(r) == [r EXCEPT !.pc = "done", !.threw = TRUE]

\* fetch(url, ...) with the given bearer token (None: no Authorization header).
\* timer: the call carries controller.signal and the setTimeout that aborts
\* it is pending; only the first fetch is given one, and clearTimeout
\* follows its return
Send(r, bearer, how) ==
  [r EXCEPT !.pc = IF r.phase = 1 THEN "await_call1" ELSE "await_call2",
            !.calls = @ + 1, !.sent = Append(@, bearer), !.tokres = Append(@, how),
            !.timer = (r.phase = 1)]

\* no try/catch around getValidToken(): its exception escapes
CaughtRethrows(r, where, exc) ==
  IF where = "retry" THEN Return(r, FALSE, "AfterRetry")
  ELSE IF where = "call"
  THEN IF exc = "timeout" THEN Return(r, FALSE, "TimedOut")
       ELSE Return(r, FALSE, "Network")
  ELSE Throw(r)

\* what the enclosing try/catch makes of an exception exc raised at stage
\* where: "token" (getValidToken before the first call), "call" (first fetch
\* and response.json()), "retry" (everything inside the 401 branch)
Caught(r, where, exc) ==
  IF where = "token" THEN Return(r, FALSE, exc)
  ELSE IF where = "retry" THEN Return(r, FALSE, "AfterRetry")
  ELSE IF where = "call"
  THEN IF exc = "timeout" THEN Return(r, FALSE, "TimedOut")
       ELSE Return(r, FALSE, "Network")
  ELSE Throw(r)

\* getValidToken() throws msg and the request goes out without a token
TokenFailureSends(r, msg) == Send(r, None, msg)

\* getValidToken() throws msg
TokenFailure(r, msg) ==
  Caught([r EXCEPT !.tokres = Append(@, msg)],
         IF r.phase = 1 THEN "token" ELSE "retry", msg)

\* the cache check without the buffer
CacheUsableNoBuffer(ct, te, t) ==
  IsSome(ct) /\ IsSome(te) /\ t < Val(te)

\* cachedToken && tokenExpiry && now < tokenExpiry - EXPIRY_BUFFER
CacheUsable(ct, te, t) ==
  IsSome(ct) /\ IsSome(te) /\ t < Val(te) - EXPIRY_BUFFER

\* SDK getValidToken() with cache <<ct, te>>, then the fetch that follows it
SdkResolve(r, ct, te) ==
  IF CacheUsable(ct, te, now)
  THEN /\ req' = Send(r, ct, "cache")
       /\ cachedToken' = ct /\ tokenExpiry' = te
       /\ UNCHANGED localStorage
  ELSE LET b == GetSessionBegin(localStorage, now) IN
       /\ localStorage' = b[3]
       /\ IF b[1] = "null"
          THEN /\ req' = TokenFailure(r, "NoSession")
               /\ cachedToken' = ct /\ tokenExpiry' = te
          ELSE IF b[1] = "stored"
          THEN /\ req' = Send(r, Some(Val(b[2]).accessToken), "stored")
               /\ cachedToken' = Some(Val(b[2]).accessToken)
               /\ tokenExpiry' = Some(Val(b[2]).expiresAt)
          ELSE /\ req' = [r EXCEPT !.pc = "await_tok_refresh"]
               /\ cachedToken' = ct /\ tokenExpiry' = te

\* request() without the skipAuth test: a token is always resolved
SdkReqStartAlwaysAuth(skip) ==
  /\ impl = "sdk" /\ mounted /\ ReqFree /\ reqs < MaxRequests
  /\ reqs' = reqs + 1
  /\ LET r == [IdleReq EXCEPT !.skipAuth = skip, !.phase = 1,
                           !.hadCache = IsSome(cachedToken)] IN
     SdkResolve(r, cachedToken, tokenExpiry)
  /\ UNCHANGED <<config, nav, storeIO, tok, now, mounted, sbSession, sbClearing, provider, nextTok, ops, last, task>>

\* AuthenticatedClient.request up to its first suspension
SdkReqStart(skip) ==
  /\ impl = "sdk" /\ mounted /\ ReqFree /\ reqs < MaxRequests
  /\ reqs' = reqs + 1
  /\ LET r == [IdleReq EXCEPT !.skipAuth = skip, !.phase = 1,
                           !.hadCache = IsSome(cachedToken)] IN
     IF skip
     THEN /\ req' = Send(r, None, "skip")
          /\ UNCHANGED <<cache, localStorage>>
     ELSE SdkResolve(r, cachedToken, tokenExpiry)
  /\ UNCHANGED <<config, nav, storeIO, tok, now, mounted, sbSession, sbClearing, provider, nextTok, ops, last, task>>

\* the refresh started by getValidToken's getSession fails
SdkReqRefreshFails(why) ==
  /\ impl = "sdk" /\ req.pc = "await_tok_refresh"
  /\ localStorage' = clearStoredSession(localStorage)
  /\ req' = TokenFailure(req, "NoSession")
  /\ UNCHANGED <<config, nav, storeIO, tok, now, mounted, sbSession, sbClearing, provider, cache, nextTok, ops, reqs,
                 last, task>>

\* the refresh started by getValidToken's getSession returns a session
SdkReqRefreshSession(s) ==
  /\ impl = "sdk" /\ req.pc = "await_tok_refresh"
  /\ nextTok <= MaxTokens /\ s \in MintSessions(now, nextTok)
  /\ nextTok' = nextTok + 1
  /\ localStorage' = storeSession(localStorage, s)
  /\ cachedToken' = Some(s.accessToken)
  /\ tokenExpiry' = Some(s.expiresAt)
  /\ req' = Send([req EXCEPT !.refreshes = @ + 1], Some(s.accessToken), "refreshed")
  /\ UNCHANGED <<config, nav, storeIO, tok, now, mounted, sbSession, sbClearing, provider, ops, reqs, last, task>>

\* { success: <dflt>, ..., ...data }: the body's own flag wins when present
Spread(dflt, o) ==
  IF o.flag = "true" THEN TRUE ELSE IF o.flag = "false" THEN FALSE ELSE dflt

\* the first call comes back, a 401 handled like any other error status
SdkReqCall1NoRetry(o) ==
  /\ impl = "sdk" /\ req.pc = "await_call1"
  /\ o = Timeout => req.timer
  /\ LET r == [req EXCEPT !.outs = Append(@, o), !.timer = FALSE] IN
     IF o.k # "resp" THEN req' = Caught(r, "call", o.k)
     ELSE IF ~IsOk(o) THEN req' = Return(r, Spread(FALSE, o), "Server")
     ELSE req' = Return(r, Spread(TRUE, o), "none")
  /\ UNCHANGED <<config, nav, storeIO, tok, now, mounted, localStorage, sbSession, sbClearing, provider, cache,
                 nextTok, ops, reqs, last, task>>

\* the first call comes back
SdkReqCall1(o) ==
  /\ impl = "sdk" /\ req.pc = "await_call1"
  /\ o = Timeout => req.timer
  /\ LET r == [req EXCEPT !.outs = Append(@, o), !.timer = FALSE] IN
     IF o.k # "resp"
     THEN /\ req' = Caught(r, "call", o.k)
          /\ UNCHANGED <<cache, localStorage>>
     ELSE IF o.status = 401 /\ ~r.skipAuth
     THEN \* clearTokenCache(), getValidToken(), retry
          SdkResolve([r EXCEPT !.phase = 2], None, None)
     ELSE IF ~IsOk(o)
     THEN /\ req' = Return(r, Spread(FALSE, o), "Server")
          /\ UNCHANGED <<cache, localStorage>>
     ELSE /\ req' = Return(r, Spread(TRUE, o), "none")
          /\ UNCHANGED <<cache, localStorage>>
  /\ UNCHANGED <<config, nav, storeIO, tok, now, mounted, sbSession, sbClearing, provider, nextTok, ops, reqs, last, task>>

\* the retry comes back (no abort signal is attached to it)
SdkReqCall2(o) ==
  /\ impl = "sdk" /\ req.pc = "await_call2"
  /\ o = Timeout => req.timer
  /\ LET r == [req EXCEPT !.outs = Append(@, o), !.timer = FALSE] IN
     IF o.k # "resp"
     THEN req' = Caught(r, "retry", o.k)
     ELSE IF ~IsOk(o)
     THEN req' = Return(r, Spread(FALSE, o), "Server")
     ELSE req' = Return(r, Spread(TRUE, o), "none")
  /\ UNCHANGED <<config, nav, storeIO, tok, now, mounted, localStorage, sbSession, sbClearing, provider, cache, nextTok,
                 ops, reqs, last, task>>

\* =========================================================================
\* Application: supabase client (lib/supabase.ts) under AuthProvider
\* (lib/auth/authContext.tsx), with ApiClient (part_002).
\* The supabase client is a library: it keeps the session, persists it, and
\* calls the subscribed onAuthStateChange callback whenever it changes it.
\* signOut drops the session, refreshSession either reports an error or
\* replaces the session, setSession either takes the tokens or reports an
\* error.  The client's own background refresh timer is left out.
\* =========================================================================

\* handleSessionUpdate(newSession): <<session, user, error, clear started>>
handleSessionUpdate(newSession, curError) ==
  IF ~IsSome(newSession) THEN <<None, None, curError, FALSE>>
  ELSE IF ~validateProjectId(projectId, Val(newSession).access_token)
  THEN <<None, None, Some("Invalid project credentials"), TRUE>>
  ELSE <<newSession, Some(Val(newSession).user), None, FALSE>>

\* the provider state after handleSessionUpdate(newSession)
Notify(newSession) ==
  LET h == handleSessionUpdate(newSession, error) IN
  /\ session' = h[1] /\ user' = h[2] /\ error' = h[3]
  /\ sbClearing' = (sbClearing \/ h[4])

\* the mount effect of AuthProvider: initializeAuth and the subscription
AppInitStart(i) ==
  /\ impl = "app" /\ ~mounted /\ i = "t1"
  /\ mounted' = TRUE
  /\ IF IsSome(sbSession) THEN Notify(sbSession)
     ELSE UNCHANGED <<session, user, error, sbClearing>>
  /\ isLoading' = FALSE
  /\ FinishGot(i, "init", "none",
               IF ~IsSome(sbSession) THEN "anonymous"
               ELSE IF validateProjectId(projectId, Val(sbSession).access_token)
                    THEN "authenticated" ELSE "rejected",
               IF IsSome(sbSession) THEN Some(Val(sbSession).access_token) ELSE None)
  /\ UNCHANGED <<config, nav, storeIO, tok, now, localStorage, sbSession, cache, nextTok, ops, reqs, req>>

\* clearSupabaseSession() started by handleSessionUpdate completes:
\* supabase drops the session and notifies the subscriber
AppClearDone ==
  /\ impl = "app" /\ sbClearing
  /\ sbSession' = None
  /\ session' = None /\ user' = None
  /\ sbClearing' = FALSE
  /\ UNCHANGED <<config, nav, storeIO, tok, now, mounted, localStorage, isLoading, error, cache, nextTok,
                 ops, reqs, last, task, req>>

\* AuthProvider.signIn / signUp up to the fetch
AppSignInStart(i, op) ==
  /\ impl = "app" /\ mounted /\ Free(i) /\ ops < MaxAuthOps
  /\ ops' = ops + 1
  /\ isLoading' = TRUE /\ error' = None
  /\ Suspend(i, op, "await_auth")
  /\ UNCHANGED <<config, nav, storeIO, tok, now, mounted, localStorage, sbSession, sbClearing, user, session,
                 cache, nextTok, reqs, req>>

\* the call rejects, or the response is not ok / not success
AppSignInFails(i, why) ==
  /\ impl = "app" /\ task[i].pc = "await_auth"
  /\ error' = Some(why) /\ isLoading' = FALSE
  /\ Finish(i, task[i].op, why, "fail_credentials")
  /\ UNCHANGED <<config, nav, storeIO, tok, now, mounted, localStorage, sbSession, sbClearing, user, session,
                 cache, nextTok, ops, reqs, req>>

\* a success response without session tokens: warning only, success reported
AppSignInNoTokens(i) ==
  /\ impl = "app" /\ task[i].pc = "await_auth"
  /\ isLoading' = FALSE
  /\ Finish(i, task[i].op, "notokens", "ok")
  /\ UNCHANGED <<config, nav, storeIO, tok, now, mounted, localStorage, sbSession, sbClearing, user, session,
                 error, cache, nextTok, ops, reqs, req>>

\* a success response with tokens: validate, then setSupabaseSession
AppSignInSession(i, s) ==
  /\ impl = "app" /\ task[i].pc = "await_auth"
  /\ nextTok <= MaxTokens /\ s \in MintSessions(now, nextTok)
  /\ nextTok' = nextTok + 1
  /\ IF ~validateProjectId(projectId, s.accessToken)
     THEN /\ error' = Some("Invalid project credentials")
          /\ isLoading' = FALSE
          /\ FinishGot(i, task[i].op, "session", "fail_tenant", Some(s.accessToken))
     ELSE /\ SuspendWith(i, task[i].op, "await_set_session", Some(s))
          /\ UNCHANGED <<error, isLoading>>
  /\ UNCHANGED <<config, nav, storeIO, tok, now, mounted, localStorage, sbSession, sbClearing, user, session,
                 cache, ops, reqs, req>>

\* setSupabaseSession comes back: supabase took the tokens (and notified the
\* subscriber) or returned an error, which signIn does not look at
AppSetSessionDone(i, taken) ==
  /\ impl = "app" /\ task[i].pc = "await_set_session"
  /\ IF taken
     THEN /\ sbSession' = Some(SbOf(Val(task[i].arg)))
          /\ Notify(Some(SbOf(Val(task[i].arg))))
     ELSE UNCHANGED <<sbSession, session, user, error, sbClearing>>
  /\ isLoading' = FALSE
  /\ FinishGot(i, task[i].op, IF taken THEN "session" ELSE "refused", "ok",
               Some(Val(task[i].arg).accessToken))
  /\ UNCHANGED <<config, nav, storeIO, tok, now, mounted, localStorage, cache, nextTok, ops, reqs, req>>

\* AuthProvider.signOut up to the backend call (or, without a session in
\* the provider state, up to clearSupabaseSession)
AppSignOutStart(i) ==
  /\ impl = "app" /\ mounted /\ Free(i) /\ ops < MaxAuthOps
  /\ ops' = ops + 1
  /\ isLoading' = TRUE
  /\ Suspend(i, "signOut", IF IsSome(session) THEN "await_signout" ELSE "await_sb_signout")
  /\ UNCHANGED <<config, nav, storeIO, tok, now, mounted, localStorage, sbSession, sbClearing, user, session,
                 error, cache, nextTok, reqs, req>>

\* the backend sign-out call comes back in any way (a rejection is caught)
AppSignOutResponse(i, out) ==
  /\ impl = "app" /\ task[i].pc = "await_signout"
  /\ SuspendWith(i, "signOut", "await_sb_signout", Some(out))
  /\ UNCHANGED <<config, nav, storeIO, tok, now, mounted, localStorage, sbSession, sbClearing, provider,
                 cache, nextTok, ops, reqs, req>>

\* clearSupabaseSession() completes: supabase drops the session and notifies;
\* signOut clears the provider state
AppSbSignOutDone(i) ==
  /\ impl = "app" /\ task[i].pc = "await_sb_signout"
  /\ sbSession' = None
  /\ session' = None /\ user' = None /\ error' = None
  /\ isLoading' = FALSE
  /\ Finish(i, "signOut", IF IsSome(task[i].arg) THEN Val(task[i].arg) ELSE "none", "ok")
  /\ UNCHANGED <<config, nav, storeIO, tok, now, mounted, localStorage, sbClearing, cache, nextTok, ops,
                 reqs, req>>

\* AuthProvider.refreshSession up to supabase.auth.refreshSession()
AppRefreshStart(i) ==
  /\ impl = "app" /\ mounted /\ Free(i) /\ ops < MaxAuthOps
  /\ ops' = ops + 1
  /\ Suspend(i, "refresh", "await_refresh")
  /\ UNCHANGED <<config, nav, storeIO, tok, now, mounted, localStorage, sbSession, sbClearing, provider,
                 cache, nextTok, reqs, req>>

\* supabase reports a refresh error: logged, nothing else
AppRefreshFails(i, why) ==
  /\ impl = "app" /\ task[i].pc = "await_refresh"
  /\ Finish(i, "refresh", why, "error")
  /\ UNCHANGED <<config, nav, storeIO, tok, now, mounted, localStorage, sbSession, sbClearing, provider,
                 cache, nextTok, ops, reqs, req>>

\* supabase refreshed the session: it keeps the new one, notifies, and
\* refreshSession hands it to handleSessionUpdate
AppRefreshSession(i, s) ==
  /\ impl = "app" /\ task[i].pc = "await_refresh"
  /\ IsSome(sbSession)
  /\ nextTok <= MaxTokens /\ s \in MintSessions(now, nextTok)
  /\ nextTok' = nextTok + 1
  /\ sbSession' = Some(SbOf(s))
  /\ Notify(Some(SbOf(s)))
  /\ Finish(i, "refresh", "session", "ok")
  /\ UNCHANGED <<config, nav, storeIO, tok, now, mounted, localStorage, isLoading, cache, ops, reqs, req>>

\* ---------------------------------------------------------------- ApiClient
\* session.expires_at ? session.expires_at * 1000 : 0
AppExpiresAt(sb) == IF sb.expires_at # 0 THEN sb.expires_at ELSE 0

\* expiresAt || now + 3600000
AppCacheExpiry(sb, t) ==
  IF AppExpiresAt(sb) # 0 THEN AppExpiresAt(sb) ELSE t + DEFAULT_TOKEN_LIFE

\* ApiClient getValidToken() with cache <<ct, te>>, then the fetch after it
AppResolve(r, ct, te) ==
  IF CacheUsable(ct, te, now)
  THEN /\ req' = Send(r, ct, "cache")
       /\ cachedToken' = ct /\ tokenExpiry' = te
  ELSE IF ~IsSome(sbSession)
  THEN /\ req' = TokenFailure(r, "NoSession")
       /\ cachedToken' = ct /\ tokenExpiry' = te
  ELSE IF AppExpiresAt(Val(sbSession)) # 0
          /\ now > AppExpiresAt(Val(sbSession)) - EXPIRY_BUFFER
  THEN /\ req' = [r EXCEPT !.pc = "await_tok_refresh"]
       /\ cachedToken' = ct /\ tokenExpiry' = te
  ELSE /\ req' = Send(r, Some(Val(sbSession).access_token), "stored")
       /\ cachedToken' = Some(Val(sbSession).access_token)
       /\ tokenExpiry' = Some(AppCacheExpiry(Val(sbSession), now))

\* ApiClient.request up to its first suspension
AppReqStart(skip) ==
  /\ impl = "app" /\ mounted /\ ReqFree /\ reqs < MaxRequests
  /\ reqs' = reqs + 1
  /\ LET r == [IdleReq EXCEPT !.skipAuth = skip, !.phase = 1,
                           !.hadCache = IsSome(cachedToken)] IN
     IF skip
     THEN /\ req' = Send(r, None, "skip")
          /\ UNCHANGED cache
     ELSE AppResolve(r, cachedToken, tokenExpiry)
  /\ UNCHANGED <<config, nav, storeIO, tok, now, mounted, localStorage, sbSession, sbClearing, provider,
                 nextTok, ops, last, task>>

\* supabase.auth.refreshSession() inside getValidToken reports an error
AppReqRefreshFails(why) ==
  /\ impl = "app" /\ req.pc = "await_tok_refresh"
  /\ req' = TokenFailure(req, "RefreshFailed")
  /\ UNCHANGED <<config, nav, storeIO, tok, now, mounted, localStorage, sbSession, sbClearing, provider,
                 cache, nextTok, ops, reqs, last, task>>

\* supabase.auth.refreshSession() inside getValidToken returns a session
AppReqRefreshSession(s) ==
  /\ impl = "app" /\ req.pc = "await_tok_refresh"
  /\ IsSome(sbSession)
  /\ nextTok <= MaxTokens /\ s \in MintSessions(now, nextTok)
  /\ nextTok' = nextTok + 1
  /\ sbSession' = Some(SbOf(s))
  /\ Notify(Some(SbOf(s)))
  /\ cachedToken' = Some(s.accessToken)
  /\ tokenExpiry' = Some(AppCacheExpiry(SbOf(s), now))
  /\ req' = Send([req EXCEPT !.refreshes = @ + 1], Some(s.accessToken), "refreshed")
  /\ UNCHANGED <<config, nav, storeIO, tok, now, mounted, localStorage, isLoading, ops, reqs, last, task>>

\* !response.ok || !json.success
AppFailed(o) == ~IsOk(o) \/ o.flag # "true"

\* the first call comes back
AppReqCall1(o) ==
  /\ impl = "app" /\ req.pc = "await_call1"
  /\ o = Timeout => req.timer
  /\ LET r == [req EXCEPT !.outs = Append(@, o), !.timer = FALSE] IN
     IF o.k # "resp"
     THEN /\ req' = Caught(r, "call", o.k)
          /\ UNCHANGED cache
     ELSE IF o.status = 401 /\ ~r.skipAuth
     THEN \* clearTokenCache(), then supabase.auth.refreshSession()
          /\ req' = [r EXCEPT !.phase = 2, !.pc = "await_retry_refresh"]
          /\ cachedToken' = None /\ tokenExpiry' = None
     ELSE IF AppFailed(o)
     THEN /\ req' = Return(r, FALSE, "Server")
          /\ UNCHANGED cache
     ELSE /\ req' = Return(r, TRUE, "none")
          /\ UNCHANGED cache
  /\ UNCHANGED <<config, nav, storeIO, tok, now, mounted, localStorage, sbSession, sbClearing, provider,
                 nextTok, ops, reqs, last, task>>

\* the refresh forced by a 401 reports an error
AppReqRetryRefreshFails(why) ==
  /\ impl = "app" /\ req.pc = "await_retry_refresh"
  /\ req' = Return([req EXCEPT !.tokres = Append(@, "RefreshFailed")], FALSE, "SessionExpired")
  /\ UNCHANGED <<config, nav, storeIO, tok, now, mounted, localStorage, sbSession, sbClearing, provider,
                 cache, nextTok, ops, reqs, last, task>>

\* the refresh forced by a 401 returns a session: retry with its token
AppReqRetryRefreshSession(s) ==
  /\ impl = "app" /\ req.pc = "await_retry_refresh"
  /\ IsSome(sbSession)
  /\ nextTok <= MaxTokens /\ s \in MintSessions(now, nextTok)
  /\ nextTok' = nextTok + 1
  /\ sbSession' = Some(SbOf(s))
  /\ Notify(Some(SbOf(s)))
  /\ cachedToken' = Some(s.accessToken)
  /\ tokenExpiry' = Some(AppCacheExpiry(SbOf(s), now))
  /\ req' = Send([req EXCEPT !.refreshes = @ + 1], Some(s.accessToken), "refreshed")
  /\ UNCHANGED <<config, nav, storeIO, tok, now, mounted, localStorage, isLoading, ops, reqs, last, task>>

\* the retry comes back (no abort signal is attached to it)
AppReqCall2(o) ==
  /\ impl = "app" /\ req.pc = "await_call2"
  /\ o = Timeout => req.timer
  /\ LET r == [req EXCEPT !.outs = Append(@, o), !.timer = FALSE] IN
     IF o.k # "resp"
     THEN req' = Caught(r, "retry", o.k)
     ELSE IF AppFailed(o)
     THEN req' = Return(r, FALSE, "Server")
     ELSE req' = Return(r, TRUE, "none")
  /\ UNCHANGED <<config, nav, storeIO, tok, now, mounted, localStorage, sbSession, sbClearing, provider,
                 cache, nextTok, ops, reqs, last, task>>

\* =========================================================================
\* Specifications
\* =========================================================================

\* the provider mounts and restores the persisted session
MountNext ==
  \/ SdkInitStart("t1")
  \/ \E s \in MintSessions(now, nextTok) : SdkInitRefreshSession("t1", s)
  \/ \E why \in AuthFailures : SdkInitRefreshFails("t1", why)
  \/ AppInitStart("t1")
  \/ AppClearDone

\* sign-in, sign-up, sign-out and refresh, one at a time
AuthNext ==
  \/ \E op \in {"signIn", "signUp"} : SdkSignInStart("t1", op)
  \/ \E why \in AuthFailures : SdkSignInFails("t1", why)
  \/ \E s \in MintSessions(now, nextTok) : SdkSignInSession("t1", s)
  \/ \E o \in SignOutOutcomes : SdkCleanupResponse("t1", o)
  \/ SdkSignOutStart("t1")
  \/ \E o \in SignOutOutcomes : SdkSignOutResponse("t1", o)
  \/ SdkRefreshStart("t1")
  \/ \E why \in AuthFailures : SdkRefreshFails("t1", why)
  \/ \E s \in MintSessions(now, nextTok) : SdkRefreshSession("t1", s)
  \/ \E op \in {"signIn", "signUp"} : AppSignInStart("t1", op)
  \/ \E why \in AuthFailures : AppSignInFails("t1", why)
  \/ AppSignInNoTokens("t1")
  \/ \E s \in MintSessions(now, nextTok) : AppSignInSession("t1", s)
  \/ \E taken \in BOOLEAN : AppSetSessionDone("t1", taken)
  \/ AppSignOutStart("t1")
  \/ \E o \in SignOutOutcomes : AppSignOutResponse("t1", o)
  \/ AppSbSignOutDone("t1")
  \/ AppRefreshStart("t1")
  \/ \E why \in AuthFailures : AppRefreshFails("t1", why)
  \/ \E s \in MintSessions(now, nextTok) : AppRefreshSession("t1", s)

\* request(), the target endpoint answering from the outcome sets F (first
\* call) and R (retry)
ReqNext(F, R) ==
  \/ \E skip \in BOOLEAN : SdkReqStart(skip)
  \/ \E why \in AuthFailures : SdkReqRefreshFails(why)
  \/ \E s \in MintSessions(now, nextTok) : SdkReqRefreshSession(s)
  \/ \E o \in F : SdkReqCall1(o)
  \/ \E o \in R : SdkReqCall2(o)
  \/ \E skip \in BOOLEAN : AppReqStart(skip)
  \/ \E why \in AuthFailures : AppReqRefreshFails(why)
  \/ \E s \in MintSessions(now, nextTok) : AppReqRefreshSession(s)
  \/ \E o \in F : AppReqCall1(o)
  \/ \E why \in AuthFailures : AppReqRetryRefreshFails(why)
  \/ \E s \in MintSessions(now, nextTok) : AppReqRetryRefreshSession(s)
  \/ \E o \in R : AppReqCall2(o)

\* a target endpoint that answers 200 or 401 with a well-formed body
PlainOutcomes == {Outcome("resp", 200, "true"), Outcome("resp", 401, "false")}

\* the whole system: auth operations and requests interleaved
Next == Tick \/ MountNext \/ AuthNext \/ ReqNext(PlainOutcomes, PlainOutcomes)
Spec == Init /\ [][Next]_vars

\* the request client against every kind of answer, sessions coming from
\* the persisted store
ClientNext == Tick \/ MountNext \/ ReqNext(FirstOutcomes, RetryOutcomes)
SpecClient == Init /\ [][ClientNext]_vars

\* the session manager alone
ManagerNext == Tick \/ MountNext \/ AuthNext
SpecManager == Init /\ [][ManagerNext]_vars

\* =========================================================================
\* Route guard: LayoutProtection over ProtectedRoute, in the SDK
\* (sdk-react/src/components/index.tsx) and in the application (part_004,
\* utils/api-client.ts).  A path string is the sequence of its pieces: "/"
\* and the runs of characters between slashes, themselves cut into the
\* words of Atoms, so that concatenation, equality and startsWith on strings
\* are concatenation, equality and prefix on sequences.
\* =========================================================================

MaxPathLen == 4
MaxRoutes == 2

Atoms == {"/", "login", "dashboard", "x"}
Root == <<"/">>
Login == <<"/", "login">>
Dashboard == <<"/", "dashboard">>
\* AUTHENTICATED_HOME, authenticatedRedirect = '/home'
AUTHENTICATED_HOME == <<"/", "home">>
\* redirectTo = '/login'
redirectTo == Login

\* what usePathname() can return
Paths == {p \in UNION {[1..k -> Atoms] : k \in 1..MaxPathLen} : p[1] = "/"}
\* entries of the public route list
PublicPrefixes == {Root, Login}
\* PUBLIC_ROUTES / publicRoutes
RouteLists == UNION {[1..k -> PublicPrefixes] : k \in 0..MaxRoutes}

\* String.prototype.startsWith
startsWith(str, pre) ==
  Len(pre) <= Len(str) /\ SubSeq(str, 1, Len(pre)) = pre

\* SDK isPublicRoute
SdkIsPublicRoute(publicRoutes, pathname) ==
  \E k \in 1..Len(publicRoutes) :
    LET route == publicRoutes[k] IN
    IF route = Root THEN pathname = Root
    ELSE pathname = route \/ startsWith(pathname, route \o <<"/">>)

\* the application's isPublicRoute with a bare startsWith(route)
AppIsPublicRouteNoSlash(publicRoutes, pathname) ==
  \E k \in 1..Len(publicRoutes) :
    LET route == publicRoutes[k] IN
    pathname = route \/ (route # Root /\ startsWith(pathname, route))

\* the application's isPublicRoute
AppIsPublicRoute(publicRoutes, pathname) ==
  \E k \in 1..Len(publicRoutes) :
    LET route == publicRoutes[k] IN
    pathname = route \/ (route # Root /\ startsWith(pathname, route \o <<"/">>))

\* ProtectedRoute of the SDK: <<what is rendered, redirect issued>>
SdkProtectedRoute(loading, isAuthenticated) ==
  IF loading THEN <<"loading", None>>
  ELSE IF ~isAuthenticated THEN <<"null", Some(redirectTo)>>
  ELSE <<"children", None>>

\* ProtectedRoute of the application, render and effect
AppProtectedRoute(loading, hasUser) ==
  IF loading THEN <<"loading", None>>
  ELSE IF ~hasUser THEN <<"null", Some(redirectTo)>>
  ELSE <<"children", None>>

\* LayoutProtection of the SDK: <<isPublicRoute, rendered, redirect>>
SdkLayoutProtection(publicRoutes, pathname, loading, isAuthenticated) ==
  LET isPublicRoute == SdkIsPublicRoute(publicRoutes, pathname) IN
  IF loading THEN <<isPublicRoute, "loading", None>>
  ELSE IF isPublicRoute /\ isAuthenticated /\ AUTHENTICATED_HOME # <<>>
  THEN <<isPublicRoute, "null", Some(AUTHENTICATED_HOME)>>
  ELSE IF isPublicRoute THEN <<isPublicRoute, "children", None>>
  ELSE <<isPublicRoute>> \o SdkProtectedRoute(loading, isAuthenticated)

\* the application's LayoutProtection rendering public pages to signed-in
\* users without sending them home
AppLayoutProtectionNoHome(publicRoutes, pathname, loading, hasUser) ==
  LET isPublicRoute == AppIsPublicRoute(publicRoutes, pathname) IN
  IF loading THEN <<isPublicRoute, "loading", None>>
  ELSE IF isPublicRoute THEN <<isPublicRoute, "children", None>>
  ELSE <<isPublicRoute>> \o AppProtectedRoute(loading, hasUser)

\* LayoutProtection of the application, render and effect
AppLayoutProtection(publicRoutes, pathname, loading, hasUser) ==
  LET isPublicRoute == AppIsPublicRoute(publicRoutes, pathname)
      push == IF ~loading /\ hasUser /\ isPublicRoute /\ pathname # Root
              THEN Some(AUTHENTICATED_HOME) ELSE None
  IN
  IF loading THEN <<isPublicRoute, "loading", push>>
  ELSE IF isPublicRoute
  THEN IF hasUser /\ pathname # Root
       THEN <<isPublicRoute, "null", push>>
       ELSE <<isPublicRoute, "children", push>>
  ELSE <<isPublicRoute>> \o AppProtectedRoute(loading, hasUser)

\* the guard's output for the page at nav.pathname
Rendered(g) ==
  /\ nav' = [nav EXCEPT !.public = g[1], !.view = g[2], !.redirect = g[3]]
  /\ UNCHANGED <<config, now, mounted, localStorage, sbSession, sbClearing, provider, cache,
                 nextTok, ops, reqs, last, task, req, storeIO, tok>>

\* the SDK's LayoutProtection renders the page at nav.pathname
SdkRender ==
  /\ impl = "sdk" /\ nav.view = "none"
  /\ Rendered(SdkLayoutProtection(nav.publicRoutes, nav.pathname, isLoading, IsSome(user)))

\* the application's LayoutProtection renders it and its effects run
AppRender ==
  /\ impl = "app" /\ nav.view = "none"
  /\ Rendered(AppLayoutProtection(nav.publicRoutes, nav.pathname, isLoading, IsSome(user)))

\* router.push / onRedirect: the browser moves to the redirect target
FollowRedirect ==
  /\ IsSome(nav.redirect)
  /\ nav' = [nav EXCEPT !.pathname = Val(nav.redirect), !.view = "none", !.redirect = None]
  /\ UNCHANGED <<config, now, mounted, localStorage, sbSession, sbClearing, provider, cache,
                 nextTok, ops, reqs, last, task, req, storeIO, tok>>

\* a session of this tenant, held by an authenticated provider
HeldSession == ZyloAuthSession("u1", Jwt(0, JStr("projA"), 7), RefreshTok(0), 7)

\* a mounted provider in any of its states, and a navigation to any path
\* under any public route list
InitGuard ==
  /\ impl \in {"sdk", "app"}
  /\ projectId = "projA"
  /\ now = 1
  /\ mounted = TRUE
  /\ \E authed \in BOOLEAN :
       /\ localStorage = IF authed /\ impl = "sdk"
                         THEN storeSession(EmptyStorage, HeldSession) ELSE EmptyStorage
       /\ sbSession = IF authed /\ impl = "app" THEN Some(SbOf(HeldSession)) ELSE None
       /\ user = IF authed THEN Some(HeldSession.user) ELSE None
       /\ session = IF ~authed THEN None
                    ELSE IF impl = "sdk" THEN Some(HeldSession) ELSE Some(SbOf(HeldSession))
  /\ sbClearing = FALSE
  /\ isLoading \in BOOLEAN
  /\ error = None
  /\ cachedToken = None
  /\ tokenExpiry = None
  /\ nextTok = 1
  /\ ops = 0
  /\ reqs = 0
  /\ last = NoLast
  /\ task = [i \in Slots |-> IdleTask]
  /\ req = IdleReq
  /\ \E p \in Paths, l \in RouteLists :
       nav = [IdleNav EXCEPT !.pathname = p, !.publicRoutes = l]
  /\ storeIO = IdleStoreIO
  /\ tok = IdleTok

GuardNext == SdkRender \/ AppRender \/ FollowRedirect
SpecGuard == InitGuard /\ [][GuardNext]_vars

\* =========================================================================
\* Session store on its own: storeSession, getStoredSession and
\* clearStoredSession (part_009) called in any order on any session
\* =========================================================================

\* sessions handed to storeSession: any user, tokens and expiry
StoreSessions ==
  {ZyloAuthSession(u, Jwt(n, JStr(c), e), RefreshTok(n), e) :
     u \in {"u1", "u2"}, n \in 0..1, c \in Tenants, e \in 0..(MaxTime + 2)}

\* storages in which one of the three entries of a stored session is missing
PartialStorages ==
  {[storeSession(EmptyStorage, s) EXCEPT ![k] = Absent] :
     s \in InitialSessions, k \in {"SESSION", "ACCESS_TOKEN", "REFRESH_TOKEN"}}

\* a SESSION entry that is not JSON
Garbled == [EmptyStorage EXCEPT !.SESSION = Str("garbled")]

StoreFrame ==
  UNCHANGED <<config, now, mounted, sbSession, sbClearing, provider, cache, nextTok, ops,
              reqs, last, task, req, nav, tok>>

\* storeSession(s)
StoreCall(s) ==
  /\ localStorage' = storeSession(localStorage, s)
  /\ storeIO' = [stored |-> Some(s), loaded |-> None, pc |-> "stored", ans |-> None]
  /\ StoreFrame

\* getStoredSession()
LoadCall ==
  /\ LET g == getStoredSession(localStorage, now) IN
     /\ localStorage' = g[2]
     /\ storeIO' = [storeIO EXCEPT !.loaded = g[1], !.pc = "loaded"]
  /\ StoreFrame

\* authService.isAuthenticated(): <<answer, storage afterwards>>
isAuthenticated(ls, t) ==
  LET g == getStoredSession(ls, t) IN <<Some(IsSome(g[1])), g[2]>>

\* getAccessToken reading the ACCESS_TOKEN entry itself
getAccessTokenRaw(ls, t) ==
  <<IF ls.ACCESS_TOKEN.t = "str" THEN Some(ls.ACCESS_TOKEN.v) ELSE None, ls>>

\* authService.getAccessToken(): <<token or None, storage afterwards>>
getAccessToken(ls, t) ==
  LET g == getStoredSession(ls, t) IN <<TokenOf(g[1]), g[2]>>

\* isAuthenticated() or getAccessToken() is called
QueryCall(q) ==
  /\ LET a == IF q = "isAuthenticated" THEN isAuthenticated(localStorage, now)
               ELSE getAccessToken(localStorage, now) IN
     /\ localStorage' = a[2]
     /\ storeIO' = [storeIO EXCEPT !.pc = q, !.ans = a[1]]
  /\ StoreFrame

\* clearStoredSession()
ClearCall ==
  /\ storeIO.pc # "cleared"
  /\ localStorage' = clearStoredSession(localStorage)
  /\ storeIO' = [stored |-> None, loaded |-> None, pc |-> "cleared", ans |-> None]
  /\ StoreFrame

\* the SDK before mounting, over whatever an earlier page load left stored
InitStore ==
  /\ impl = "sdk"
  /\ projectId = "projA"
  /\ now = 1
  /\ mounted = FALSE
  /\ localStorage \in InitialStorages \cup {Garbled} \cup PartialStorages
  /\ sbSession = None
  /\ sbClearing = FALSE
  /\ user = None
  /\ session = None
  /\ isLoading = TRUE
  /\ error = None
  /\ cachedToken = None
  /\ tokenExpiry = None
  /\ nextTok = 1
  /\ ops = 0
  /\ reqs = 0
  /\ last = NoLast
  /\ task = [i \in Slots |-> IdleTask]
  /\ req = IdleReq
  /\ nav = IdleNav
  /\ storeIO = IdleStoreIO
  /\ tok = IdleTok

StoreNext ==
  \/ Tick
  \/ \E s \in StoreSessions : StoreCall(s)
  \/ LoadCall
  \/ \E q \in {"isAuthenticated", "getAccessToken"} : QueryCall(q)
  \/ ClearCall
SpecStore == InitStore /\ [][StoreNext]_vars

\* =========================================================================
\* Token decoder and tenant validator on their own: getProjectIdFromToken
\* and validateSessionProject / validateProjectId applied to any token under
\* any configured tenant
\* =========================================================================

MaxSegments == 4

\* strings a token may carry as its tenant claim
ClaimStrings == {"projA", "projB", "ProjA", ""}
\* JSON values of the app_metadata.project_id member
ClaimValues == {JStr(c) : c \in ClaimStrings} \cup {JAbsent, JNull, JNum}
\* middle segments: not base64, not JSON, or the JSON value they hold
MiddleSegments ==
  {BadBase64, BadJson, Payload(JNull), Payload(JNum), Payload(JObj(JAbsent, 7))}
  \cup {Payload(JObj(JMeta(pv), 7)) : pv \in ClaimValues}
\* token strings of one to MaxSegments segments
TokenStrings ==
  {[i \in 1..k |-> IF i = 2 THEN m ELSE "seg"] :
     k \in 1..MaxSegments, m \in MiddleSegments}

TokenFrame ==
  UNCHANGED <<config, now, mounted, localStorage, sbSession, sbClearing, provider, cache,
              nextTok, ops, reqs, last, task, req, nav, storeIO>>

\* getProjectIdFromToken(token) of the implementation in use
LookupCall ==
  /\ tok.pc # "lookup"
  /\ tok' = [tok EXCEPT !.pc = "lookup",
                        !.payload = decodeJwtPayload(tok.token),
                        !.tenant = IF impl = "sdk" THEN getProjectIdFromTokenSdk(tok.token)
                                   ELSE getProjectIdFromTokenApp(tok.token)]
  /\ TokenFrame

\* validateSessionProject / validateProjectId on the token
ValidateCall ==
  /\ tok.pc # "validate"
  /\ tok' = [tok EXCEPT !.pc = "validate",
                        !.valid = Some(IF impl = "sdk"
                                       THEN validateSessionProject(projectId, tok.token)
                                       ELSE validateProjectId(projectId, tok.token))]
  /\ TokenFrame

\* either implementation under any configured tenant, with any token in hand
InitToken ==
  /\ impl \in {"sdk", "app"}
  /\ projectId \in ExpectedTenants
  /\ now = 1
  /\ mounted = FALSE
  /\ localStorage = EmptyStorage
  /\ sbSession = None
  /\ sbClearing = FALSE
  /\ user = None
  /\ session = None
  /\ isLoading = TRUE
  /\ error = None
  /\ cachedToken = None
  /\ tokenExpiry = None
  /\ nextTok = 1
  /\ ops = 0
  /\ reqs = 0
  /\ last = NoLast
  /\ task = [i \in Slots |-> IdleTask]
  /\ req = IdleReq
  /\ nav = IdleNav
  /\ storeIO = IdleStoreIO
  /\ \E t \in TokenStrings : tok = [IdleTok EXCEPT !.token = t]

TokenNext == LookupCall \/ ValidateCall
SpecToken == InitToken /\ [][TokenNext]_vars

\* =========================================================================
\* Properties
\* =========================================================================

\* the target endpoint answered with a readable response of status 401
Is401(o) == o.k = "resp" /\ o.status = 401
\* a 200 answer whose envelope says success
Ok200 == Outcome("resp", 200, "true")
\* token resolution failed somewhere in the request in hand
TokenFailed(r) ==
  \E k \in 1..Len(r.tokres) : r.tokres[k] \in {"NoSession", "RefreshFailed"}

\* the access token in the persisted session slot, if any
PersistedToken ==
  IF impl = "sdk"
  THEN IF localStorage.SESSION.t = "json"
       THEN Some(JsonParse(localStorage.SESSION).accessToken) ELSE None
  ELSE IF IsSome(sbSession) THEN Some(Val(sbSession).access_token) ELSE None

\* the access token of the session the application sees, if any
VisibleToken ==
  IF ~IsSome(session) THEN None
  ELSE IF impl = "sdk" THEN Some(Val(session).accessToken)
  ELSE Some(Val(session).access_token)

\* the persisted slot is empty
PersistedEmpty == localStorage = EmptyStorage /\ sbSession = None

\* at carries a tenant claim that differs from the configured tenant
ForeignToken(at) ==
  /\ projectId \notin {"", "dev"}
  /\ LET p == decodeJwtPayload(at) IN
     /\ PayloadTruthy(p)
     /\ ProjectIdField(p).t = "str"
     /\ ProjectIdField(p).s # projectId

\* at was handed out by the backend during this run
MintedInRun(at) == at[3] >= 1

\* the session a call to the Session Manager's store finds: <<token, expiry>>
StoredPair ==
  IF impl = "sdk"
  THEN LET g == getStoredSession(localStorage, now)[1] IN
       IF IsSome(g) THEN Some(<<Val(g).accessToken, Val(g).expiresAt>>) ELSE None
  ELSE IF IsSome(sbSession)
       THEN Some(<<Val(sbSession).access_token, Val(sbSession).expires_at>>)
       ELSE None

\* this step completes an auth operation named op
Completes(op) == last'.n # last.n /\ last'.op = op
\* this step starts an authenticated request()
StartsAuthRequest == reqs' = reqs + 1 /\ ~req'.skipAuth

\* C1 - retry ceiling: an authenticated request whose every call is answered
\* 401, with a session obtainable, returns success = false after exactly two
\* calls; no request ever makes a third call.
C1_RetryCeiling ==
  /\ req.calls <= 2
  /\ (/\ req.returned /\ ~req.skipAuth /\ ~TokenFailed(req)
      /\ Len(req.outs) >= 1
      /\ \A k \in 1..Len(req.outs) : Is401(req.outs[k]))
     => (~req.success /\ req.calls = 2)

\* C2 - single transparent retry: an authenticated request whose first call
\* is answered 401 is sent exactly once more (when a token can be obtained
\* for the retry), and when that second call is answered 200 with a success
\* envelope the request returns success = true.
C2_TransparentRetry ==
  (/\ req.returned /\ ~req.skipAuth /\ ~TokenFailed(req)
   /\ Len(req.outs) >= 1 /\ Is401(req.outs[1]))
  => /\ req.calls = 2 /\ Len(req.outs) = 2
     /\ (req.outs[2] = Ok200 => req.success)

C2_Witness ==
  /\ req.returned /\ req.success /\ ~req.skipAuth /\ req.calls = 2
  /\ Is401(req.outs[1]) /\ req.outs[2] = Ok200

\* C3 - on a 401 the retry carries the access token of a session refreshed
\* between the first call and the retry, never the token just rejected.
C3_RetryCarriesRefreshedToken ==
  (~req.skipAuth /\ Len(req.sent) = 2)
  => (req.tokres[2] = "refreshed" /\ req.sent[2] # req.sent[1])

\* C4 - tenant invariant: in every state neither the persisted session slot
\* nor the session the application sees holds a session, obtained from the
\* backend in this run, whose token carries a tenant other than the
\* configured one.
C4_TenantInvariant ==
  \A t \in {PersistedToken, VisibleToken} :
    (IsSome(t) /\ MintedInRun(Val(t))) => ~ForeignToken(Val(t))

C6_CacheClearedOnSignOut ==
  [][(StartsAuthRequest /\ last.op = "signOut" /\ Free("t1"))
       => (req'.sent = <<>> /\ req'.returned /\ ~req'.success
           /\ req'.error = "NoSession")]_vars

\* C7 - an authenticated request issued when the cache holds no usable token
\* and the Session Manager has no session returns success = false with the
\* no-session error without calling the target endpoint; so does one whose
\* token resolution found no session after a refresh attempt.
C7_NoSessionNoCall ==
  [][/\ (/\ StartsAuthRequest
         /\ ~(IsSome(cachedToken) /\ IsSome(tokenExpiry)
              /\ now < Val(tokenExpiry) - EXPIRY_BUFFER)
         /\ ~IsSome(StoredPair))
        => (/\ req'.returned /\ ~req'.success
            /\ req'.error = "NoSession" /\ req'.calls = 0)
     /\ (req'.tokres = <<"NoSession">>)
        => (/\ req'.returned /\ ~req'.success
            /\ req'.error = "NoSession" /\ req'.calls = 0)]_vars

C7_Witness ==
  /\ req.returned /\ ~req.skipAuth /\ ~req.success
  /\ req.error = "NoSession" /\ req.calls = 0 /\ req.sent = <<>>

\* C8 - request() never throws: whatever the outcomes, a finished call has
\* returned a value with a success flag.
C8_NeverThrows ==
  /\ ~req.threw
  /\ req.pc = "done" => (req.returned /\ req.success \in BOOLEAN)

C8_Witness ==
  /\ req.returned /\ ~req.success /\ req.error = "AfterRetry"
  /\ Len(req.outs) = 2 /\ req.outs[2].k = "badjson"

\* C9 (as amended) - the cached token is attached without consulting the
\* Session Manager iff the cache is filled and now < expiry - 5 minutes;
\* otherwise the Session Manager is asked, and the stored session's token is
\* attached as it is when at least 5 minutes of it remain, a refresh being
\* awaited only when less than 5 minutes remain.
C9_BufferAmended ==
  [][StartsAuthRequest =>
     IF IsSome(cachedToken) /\ IsSome(tokenExpiry)
        /\ now < Val(tokenExpiry) - EXPIRY_BUFFER
     THEN req'.tokres = <<"cache">> /\ req'.sent = <<cachedToken>>
     ELSE IF ~IsSome(StoredPair)
     THEN req'.sent = <<>> /\ req'.returned
     ELSE IF StoredPair[1][2] < now + EXPIRY_BUFFER
     THEN req'.sent = <<>> /\ req'.pc = "await_tok_refresh"
     ELSE req'.tokres = <<"stored">> /\ req'.sent = <<Some(StoredPair[1][1])>>]_vars

\* a filled cache exactly 5 minutes before expiry: the stored token goes out
C9_Witness ==
  /\ req.hadCache /\ req.pc = "await_call1" /\ req.tokres = <<"stored">>
  /\ IsSome(tokenExpiry) /\ now = Val(tokenExpiry) - EXPIRY_BUFFER

\* C9 (as claimed) - with a filled cache, the cached token is attached iff
\* now < expiry - 5 minutes, and in every other case no token is attached
\* until a refresh has delivered one.
C9_BufferAsClaimed ==
  [][(StartsAuthRequest /\ IsSome(cachedToken) /\ IsSome(tokenExpiry)) =>
     /\ (now < Val(tokenExpiry) - EXPIRY_BUFFER) <=> (req'.tokres = <<"cache">>)
     /\ ~(now < Val(tokenExpiry) - EXPIRY_BUFFER) => req'.sent = <<>>]_vars

\* C10 - a refreshSession() whose backend refresh succeeded ends with the
\* new session persisted and visible when it passes tenant validation, and
\* with the slot cleared (or being cleared) and the manager Anonymous when it
\* does not.
C10_RefreshValidates ==
  [][(Completes("refresh") /\ last'.out = "session") =>
     \/ /\ IsSome(VisibleToken') /\ PersistedToken' = VisibleToken'
        /\ ~ForeignToken(Val(VisibleToken'))
     \/ /\ VisibleToken' = None /\ user' = None
        /\ (PersistedToken' = None \/ sbClearing')]_vars

\* C11 - a refreshSession() whose backend refresh fails (error response or
\* network failure) leaves the manager Anonymous: user and session are null
\* when it completes.
C11_RefreshFailureAnonymous ==
  [][(Completes("refresh") /\ last'.out \in AuthFailures)
       => (user' = None /\ session' = None)]_vars

\* this step completes a signIn or a signUp
CompletesSignIn == Completes("signIn") \/ Completes("signUp")
\* the ways signIn / signUp report the invalid-project-credentials failure
TenantFailures == {"threw_tenant", "fail_tenant"}

C13_InitializeOutcome ==
  [][Completes("init") =>
       /\ ~isLoading'
       /\ ~IsSome(last'.got) => (user' = None /\ session' = None)
       /\ (IsSome(last'.got) /\ ForeignToken(Val(last'.got))) =>
            /\ user' = None /\ session' = None
            /\ (PersistedToken' = None \/ (impl = "app" /\ sbClearing'))
            /\ IsSome(error')
       /\ (IsSome(last'.got) /\ ~ForeignToken(Val(last'.got))) =>
            (IsSome(user') /\ IsSome(session'))]_vars

\* C14: every network call of request(), the initial one and the retry
\* alike, is under the timeout: while request() waits for a call, the timer
\* that aborts that call is pending, so a backend that never answers leads
\* to the timed-out result.
C14_EveryCallTimed ==
  req.pc \in {"await_call1", "await_call2"} => req.timer

\* the response to the last call request() made, when it was answered
FinalResponse == req.outs[Len(req.outs)]
HasFinalResponse ==
  req.pc = "done" /\ req.returned /\ Len(req.outs) > 0 /\ FinalResponse.k = "resp"

\* C15: request() returns success=true only if the final response has a 2xx
\* status and its body's success flag is not false; every non-2xx final
\* response, whatever its body, and every body with success=false gives
\* success=false.
C15_SuccessMeans2xx ==
  HasFinalResponse =>
    /\ req.success => (IsOk(FinalResponse) /\ FinalResponse.flag # "false")
    /\ ~IsOk(FinalResponse) => ~req.success
    /\ FinalResponse.flag = "false" => ~req.success

\* C16: with skipAuth, request() does not consult the token cache or the
\* Session Manager, attaches no bearer token, makes exactly one call even
\* when that call is answered 401, and leaves cache and session unchanged.
C16_SkipAuthFrame ==
  [][(req' # req /\ req'.skipAuth) =>
       /\ UNCHANGED <<cache, localStorage, sbSession, session, user>>
       /\ req'.tokres = <<"skip">> /\ req'.refreshes = 0
       /\ req'.sent = <<None>> /\ req'.calls = 1
       /\ req'.pc \in {"await_call1", "done"}
       /\ req'.pc = "done" => (req'.returned /\ Len(req'.outs) = 1)]_vars

C16_Witness ==
  /\ req.skipAuth /\ req.returned /\ req.calls = 1 /\ Is401(req.outs[1])
  /\ IsSome(StoredPair) /\ IsSome(cachedToken)

\* the guard has rendered the page at nav.pathname
GuardRan == nav.view # "none"
Loading == isLoading
Anonymous == ~isLoading /\ ~IsSome(user)
Authenticated == ~isLoading /\ IsSome(user)
\* the path is public under the list, in the words of the matching rule:
\* it equals an entry, or an entry other than the root path followed by "/"
\* is an initial part of it
PublicByRule(routes, p) ==
  \E k \in 1..Len(routes) :
    \/ p = routes[k]
    \/ /\ routes[k] # Root
       /\ Len(p) > Len(routes[k])
       /\ \A j \in 1..Len(routes[k]) : p[j] = routes[k][j]
       /\ p[Len(routes[k]) + 1] = "/"
NavPublic == PublicByRule(nav.publicRoutes, nav.pathname)

\* C17: the decision table of the route guard.  Loading: the loading
\* placeholder and no redirect; Anonymous on a protected path: redirect to the
\* login path; Anonymous on a public path: render; Authenticated on a
\* protected path: render; Authenticated on a public path other than the root:
\* redirect to the authenticated-home path.
C17_DecisionTable ==
  GuardRan =>
    /\ Loading => (nav.view = "loading" /\ nav.redirect = None)
    /\ (Anonymous /\ ~NavPublic) => nav.redirect = Some(Login)
    /\ (Anonymous /\ NavPublic) => (nav.view = "children" /\ nav.redirect = None)
    /\ (Authenticated /\ ~NavPublic) => (nav.view = "children" /\ nav.redirect = None)
    /\ (Authenticated /\ NavPublic /\ nav.pathname # Root)
         => nav.redirect = Some(AUTHENTICATED_HOME)

C17_Witness ==
  /\ GuardRan /\ Authenticated /\ nav.pathname = Login /\ nav.publicRoutes = <<Root, Login>>
  /\ nav.redirect = Some(AUTHENTICATED_HOME)

\* C18: an authenticated user at the root path is never redirected: the page
\* is rendered, whether or not the root path is among the public routes.
C18_RootNeverRedirected ==
  (GuardRan /\ Authenticated /\ nav.pathname = Root)
    => (nav.view = "children" /\ nav.redirect = None)

\* C19: the guard classifies the path as public exactly when it equals an
\* entry of the list or starts with an entry other than the root path
\* followed by "/"; a root entry makes only the root path public, and
\* '/loginx' is not public under '/login'.
C19_PublicMatching ==
  GuardRan =>
    /\ nav.public <=> NavPublic
    /\ (\A k \in 1..Len(nav.publicRoutes) : nav.publicRoutes[k] = Root)
         => (nav.public => nav.pathname = Root)
    /\ (nav.pathname = <<"/", "login", "x">> /\ nav.publicRoutes = <<Login>>) => ~nav.public

C19_Witness ==
  /\ GuardRan /\ nav.pathname = <<"/", "login", "/", "x">>
  /\ nav.publicRoutes = <<Root, Login>> /\ nav.public

PersistedExpired ==
  /\ localStorage.SESSION.t = "json"
  /\ JsonParse(localStorage.SESSION).expiresAt < now

\* C21: a persisted session whose expiresAt is in the past is treated as
\* absent: getStoredSession() returns no session and removes the persisted
\* entries, isAuthenticated() is false and getAccessToken() returns nothing.
C21_ExpiredIsAbsent ==
  [][(PersistedExpired /\ storeIO' # storeIO) =>
       /\ storeIO'.pc = "loaded" => (storeIO'.loaded = None /\ localStorage' = EmptyStorage)
       /\ storeIO'.pc = "isAuthenticated" => storeIO'.ans = Some(FALSE)
       /\ storeIO'.pc = "getAccessToken" => storeIO'.ans = None]_vars

C21_Witness ==
  /\ storeIO.pc = "getAccessToken" /\ storeIO.ans = None /\ localStorage = EmptyStorage
  /\ IsSome(storeIO.stored) /\ Val(storeIO.stored).expiresAt < now

\* the token in hand is well formed and its tenant claim is a string
ClaimIsString ==
  /\ Len(tok.token) = 3 /\ tok.token[2] \notin {BadBase64, BadJson}
  /\ tok.token[2].val.t = "obj" /\ tok.token[2].val.app_metadata.t = "obj"
  /\ tok.token[2].val.app_metadata.project_id.t = "str"
ClaimString == tok.token[2].val.app_metadata.project_id.s
ExpectedSet == projectId \notin {"", "dev"}

\* C22: tenant mismatch is rejected.  With the expected tenant set and not
\* the dev sentinel, a well-formed token whose tenant claim is a string is
\* valid iff that string equals the expected tenant exactly; every other
\* string, the empty one included, is refused.
C22_MismatchRejected ==
  (IsSome(tok.valid) /\ ExpectedSet /\ ClaimIsString)
    => (Val(tok.valid) <=> ClaimString = projectId)

\* C23: with the expected tenant unset, empty or the dev sentinel, every
\* token whatsoever is valid, malformed ones and ones carrying any tenant
\* claim included.
C23_UnsetAcceptsAll ==
  (IsSome(tok.valid) /\ ~ExpectedSet) => Val(tok.valid)

C23_Witness ==
  /\ IsSome(tok.valid) /\ Val(tok.valid) /\ projectId = "dev"
  /\ ClaimIsString /\ ClaimString = "projB"

\* the token does not decode: not exactly three segments, or a middle
\* segment that base64 decoding or JSON parsing rejects
Undecodable ==
  \/ Len(tok.token) # 3
  \/ tok.token[2] \in {BadBase64, BadJson}

\* C24: decoding degrades gracefully.  For a token that does not have
\* exactly three segments, or whose middle segment fails base64 decoding or
\* JSON parsing, decoding yields no claims and the tenant lookup yields
\* not-found; the lookup returns instead of throwing.
C24_DecodeDegrades ==
  (tok.pc = "lookup" /\ Undecodable) => (tok.payload = None /\ tok.tenant = None)

C24_Witness ==
  /\ tok.pc = "lookup" /\ Len(tok.token) = 4 /\ tok.token[2] = Payload(JObj(JMeta(JStr("projB")), 7))
  /\ tok.payload = None /\ tok.tenant = None

\* one of the three persisted entries is missing
SomeEntryMissing ==
  \E k \in {"SESSION", "ACCESS_TOKEN", "REFRESH_TOKEN"} : localStorage[k] = Absent

\* C25: the persisted session is three entries, and loading treats the
\* absence of any one of them as no session: getStoredSession() called with
\* one of the three keys missing returns no session.
C25_AnyMissingIsNoSession ==
  [][(SomeEntryMissing /\ storeIO' # storeIO /\ storeIO'.pc = "loaded")
       => storeIO'.loaded = None]_vars

\* signOut() was the last operation to complete and no signIn or signUp has
\* been started since
SignedOutSince ==
  /\ last.op = "signOut"
  /\ \A i \in Slots : task[i].op \notin {"signIn", "signUp"}

\* C26: sign-out is final under interleaving.  Once signOut() has completed
\* and no signIn or signUp has been started afterwards, the persisted session
\* slot is empty, also when the response of a refresh that was in flight
\* during the sign-out arrives afterwards.
C26_SignOutFinal ==
  SignedOutSince => PersistedToken = None

\* C27: a failing operation never destroys a newer valid session.  When a
\* refreshSession fails while the store holds a valid session other than
\* the one it set out to refresh (last.got), persisted in the meantime by
\* an overlapping operation, its clearStoredSession leaves that session in
\* place.
C27_FailureSparesNewer ==
  [][(/\ Completes("refresh") /\ last'.out \in AuthFailures
      /\ IsSome(StoredPair) /\ PersistedToken # last'.got
      /\ ~ForeignToken(Val(PersistedToken)))
     => PersistedToken' = PersistedToken]_vars

\* nothing is in flight: the provider is mounted and initialized, no auth
\* operation, request or clearing of the store is under way
Quiescent ==
  /\ mounted /\ ~isLoading /\ ~sbClearing
  /\ \A i \in Slots : task[i].pc = "idle"
  /\ ReqFree

\* C28: the application state agrees with the store at rest.  In every
\* quiescent state the provider reports Authenticated iff the persisted
\* session slot holds a session, and then both hold the same access token.
C28_AgreesAtRest ==
  Quiescent =>
    /\ IsSome(user) <=> IsSome(PersistedToken)
    /\ IsSome(user) => VisibleToken = PersistedToken

\* C29: signIn and signUp report success only when a session was
\* established.  Whenever one of them completes with success, a session with
\* its tokens was received and the session store holds it; a success response
\* without tokens, or a store that refused the session, is not reported as
\* success.
C29_SuccessMeansSession ==
  [][(CompletesSignIn /\ last'.res = "ok")
       => (/\ IsSome(last'.got) /\ PersistedToken' = last'.got
           /\ last'.out \notin {"notokens", "refused"})]_vars

\* request() sends a call carrying a bearer token
AttachesToken ==
  /\ \/ reqs' = reqs + 1 /\ req'.calls = 1
     \/ reqs' = reqs /\ req'.calls = req.calls + 1
  /\ ~req'.skipAuth
  /\ IsSome(req'.sent[Len(req'.sent)])

\* C30: the bearer token of a request belongs to the current session.
\* Whatever signIn, signUp, signOut and refreshSession came before, the token
\* request() attaches is the access token of the Session Manager's current
\* session at the moment of attachment.
C30_BearerIsCurrent ==
  [][AttachesToken => req'.sent[Len(req'.sent)] = PersistedToken']_vars
====
